---- MODULE Spec2Model ----
(***************************************************************************)
(* Model of httpx.ReverseProxy (src/httpx/proxy.go): one inbound request   *)
(* handled by ServeHTTP, the CONNECT and upgrade tunnels with their relay  *)
(* goroutines, and the collaborators (dialer, transport, hijacker) as      *)
(* nondeterministic outcomes.                                              *)
(***************************************************************************)
EXTENDS Integers, Sequences, FiniteSets, TLC

\* Largest numeric Max-Forwards value carried by an inbound request.
MaxMF == 3

\* net/http status codes written by the proxy.
StatusOK == 200
StatusSwitchingProtocols == 101
StatusBadRequest == 400
StatusInternalServerError == 500
StatusBadGateway == 502
\* Variant of DoneCap: room for one signal only.
DoneCap_OneSignal == 2 - 1

\* Capacity of the done channel of serveUpgrade.
DoneCap == 2

MethodGet == "GET"
MethodConnect == "CONNECT"
MethodTrace == "TRACE"
MethodOptions == "OPTIONS"
Methods == {MethodGet, MethodConnect, MethodTrace, MethodOptions}

\* Addresses ("host:port", "net://host:port") are sequences of tokens with
\* the separators ":" and "://" as tokens of their own; "" is <<>>.
NoAddr == <<>>

\* The two relay directions of a tunnel.
C2B == "c2b"
B2C == "b2c"
Dirs == {C2B, B2C}

(***************************************************************************)
(* Header multimaps.  A header is a function from canonical names to the   *)
(* ordered list of its values; an absent key is the empty list.  A value   *)
(* is a sequence of atoms: the characters of a numeric value, the tokens   *)
(* of a list-valued header.                                                *)
(***************************************************************************)
HeaderNames == {"Max-Forwards", "Max-Forward", "Connection", "Upgrade",
                "Keep-Alive", "Content-Type", "Forwarded", "Via",
                "X-Forwarded-For", "X-Forwarded-Proto", "X-Custom"}

EmptyHeader == [n \in HeaderNames |-> <<>>]

\* http.Header.Get: the first value of the key, "" when absent.
Get(h, name) == IF Len(h[name]) = 0 THEN <<>> ELSE h[name][1]

\* http.Header.Set: replaces the values of the key.
Set(h, name, v) == [h EXCEPT ![name] = <<v>>]

\* The tokens of all values of a key.
RECURSIVE Tokens(_)
Tokens(vals) == IF Len(vals) = 0 THEN {}
                ELSE {vals[1][i] : i \in 1..Len(vals[1])} \cup Tokens(Tail(vals))

\* copyHeader(dst, src): appends the values of src to dst, key by key.
copyHeader(dst, src) == [n \in HeaderNames |-> dst[n] \o src[n]]

\* The fixed hop-by-hop names of the model's header universe.
HopFields == {"Connection", "Keep-Alive", "Upgrade"}

\* deleteHopFields(h): removes the fixed hop-by-hop names and the names
\* listed in the Connection values.
deleteHopFields(h) ==
    LET listed == Tokens(h["Connection"])
    IN  [n \in HeaderNames |->
            IF n \in HopFields \/ n \in listed THEN <<>> ELSE h[n]]

\* connectionUpgrade(h): the Upgrade value when Connection lists Upgrade.
connectionUpgrade(h) ==
    IF "Upgrade" \in Tokens(h["Connection"]) THEN Get(h, "Upgrade") ELSE <<>>

(***************************************************************************)
(* strconv.Atoi / strconv.Itoa on character sequences.                     *)
(***************************************************************************)
DigitChars == <<"0", "1", "2", "3", "4", "5", "6", "7", "8", "9">>
IsDigit(c) == \E i \in 1..10 : DigitChars[i] = c
DigitVal(c) == (CHOOSE i \in 1..10 : DigitChars[i] = c) - 1

RECURSIVE ParseUint(_)
ParseUint(s) == IF Len(s) = 0 THEN 0
                ELSE ParseUint(SubSeq(s, 1, Len(s) - 1)) * 10 + DigitVal(s[Len(s)])

AllDigits(s) == Len(s) > 0 /\ \A i \in 1..Len(s) : IsDigit(s[i])

\* Atoi(s) = [val, err]; val is 0 on a syntax error.
Atoi(s) ==
    IF Len(s) > 0 /\ s[1] \in {"-", "+"}
    THEN IF AllDigits(Tail(s))
         THEN [val |-> IF s[1] = "-" THEN 0 - ParseUint(Tail(s)) ELSE ParseUint(Tail(s)),
               err |-> FALSE]
         ELSE [val |-> 0, err |-> TRUE]
    ELSE IF AllDigits(s) THEN [val |-> ParseUint(s), err |-> FALSE]
         ELSE [val |-> 0, err |-> TRUE]

RECURSIVE Utoa(_)
Utoa(n) == IF n < 10 THEN <<DigitChars[n + 1]>>
           ELSE Utoa(n \div 10) \o <<DigitChars[(n % 10) + 1]>>

Itoa(n) == IF n < 0 THEN <<"-">> \o Utoa(0 - n) ELSE Utoa(n)

\* maxForwards(h): the Max-Forwards header as an integer; an absent or
\* unparsable header is an error.
maxForwards(h) == Atoi(Get(h, "Max-Forwards"))

(***************************************************************************)
(* Addresses.                                                              *)
(***************************************************************************)
\* Index of the last occurrence of tok in s, 0 when there is none.
LastIndex(s, tok) ==
    LET hits == {i \in 1..Len(s) : s[i] = tok}
    IN  IF hits = {} THEN 0 ELSE CHOOSE i \in hits : \A j \in hits : j <= i

\* net.SplitHostPort: the port is what follows the last colon; an address
\* without a colon is an error and yields empty parts.
SplitHostPort(addr) ==
    LET i == LastIndex(addr, ":")
    IN  IF i = 0 THEN [host |-> <<>>, port |-> <<>>]
        ELSE [host |-> SubSeq(addr, 1, i - 1), port |-> SubSeq(addr, i + 1, Len(addr))]

\* netx.SplitNetAddr: the network in front of "://", "" when there is none.
SplitNetAddr(addr) ==
    LET i == LastIndex(addr, "://")
    IN  IF i = 0 THEN [net |-> <<>>, addr |-> addr]
        ELSE [net |-> SubSeq(addr, 1, i - 1), addr |-> SubSeq(addr, i + 1, Len(addr))]

\* guessScheme(localAddr, remoteAddr)
guessScheme(localAddr, remoteAddr) ==
    IF SplitNetAddr(localAddr).net = <<"tls">> THEN "https"
    ELSE LET port == SplitHostPort(remoteAddr).port
         IN  IF port = <<>> \/ port = <<"80">> THEN "http"
             ELSE IF port = <<"443">> THEN "https"
             ELSE "http"

(***************************************************************************)
(* Forwarded and Via.  The single value of either header is the list of    *)
(* its comma-separated elements.                                           *)
(***************************************************************************)
\* Appends one element to the list carried by the header.
AppendElem(h, name, e) == Set(h, name, Get(h, name) \o <<e>>)

\* The fields of the hop synthesized from the legacy headers that are
\* present.
LegacyHop(h) ==
    (IF Len(h["X-Forwarded-For"]) = 0 THEN <<>>
     ELSE <<"for", Get(h, "X-Forwarded-For")>>)
    \o (IF Len(h["X-Forwarded-Proto"]) = 0 THEN <<>>
        ELSE <<"proto", Get(h, "X-Forwarded-Proto")>>)

\* translateXForwarded(h): one hop synthesized from the legacy headers.
translateXForwarded(h) ==
    IF Len(LegacyHop(h)) = 0 THEN h
    ELSE Set(h, "Forwarded", <<LegacyHop(h)>>)

\* addForwarded(h, scheme, remoteAddr, localAddr): appends this proxy's hop.
addForwarded(h, scheme, remoteAddr, localAddr) ==
    AppendElem(h, "Forwarded",
               <<"proto", scheme, "for", SplitHostPort(remoteAddr).host, "by", localAddr>>)

\* addVia(h, version, localAddr): appends "<version> <localAddr>".
addVia(h, version, localAddr) == AppendElem(h, "Via", <<version, localAddr>>)

(***************************************************************************)
(* State.                                                                  *)
(***************************************************************************)
VARIABLES
    req,            \* the inbound request (never modified)
    outreq,         \* the outbound request built by ServeHTTP
    pc,             \* position of the handler
    written,        \* statuses passed to w.WriteHeader, in order
    wHeader,        \* w.Header()
    bodyWritten,    \* a body was written to w
    res,            \* the backend's response
    dials,          \* calls of the dialer
    exchanges,      \* calls of RoundTrip (transport or ConnTransport)
    takeovers,      \* calls of Hijack
    backend,        \* backend connection: "none", "open", "closed"
    frontend,       \* hijacked client connection: "none", "open", "closed"
    backendCloses,  \* calls of backend.Close
    frontendCloses, \* calls of frontend.Close
    reqCancelled,   \* req.Context() is done
    cancelled,      \* cancel() of serveCONNECT's derived context was called
    relay,          \* state of the two relay goroutines
    join,           \* counter of serveCONNECT's WaitGroup
    done,           \* signals buffered in serveUpgrade's done channel
    flushed,        \* rw.Writer.Flush() succeeded in serveUpgrade
    flushOk,        \* directions of serveCONNECT whose buffered bytes were written out
    copying,        \* directions whose netx.Copy was started
    panicked,       \* the handler ended by a panic
    failure,        \* the collaborator call that failed, "none" so far
    path            \* the branch ServeHTTP took

vars == <<req, outreq, pc, written, wHeader, bodyWritten, res, dials, exchanges,
          takeovers, backend, frontend, backendCloses, frontendCloses,
          reqCancelled, cancelled, relay, join, done, flushed, flushOk, copying,
          panicked, failure,
          path>>

\* Groups of variables left alone by most actions.
reqVars == <<req, outreq>>
respVars == <<written, wHeader, bodyWritten, res>>
callVars == <<dials, exchanges, takeovers>>
connVars == <<backend, frontend, backendCloses, frontendCloses>>
taskVars == <<relay, join, done, flushed, flushOk, copying>>

(***************************************************************************)
(* Inbound requests.                                                       *)
(***************************************************************************)
UrlHosts == {NoAddr, <<"backend">>, <<"backend", ":", "443">>}
HostValues == {NoAddr, <<"origin", ":", "443">>}
LocalAddrs == {<<"proxy", ":", "80">>, <<"tls", "://", "proxy", ":", "443">>}
Schemes == {"", "https"}
RemoteAddr == <<"client", ":", "5000">>

\* Values of an inbound Max-Forwards header; <<>> is the absent header.
MaxForwardsValues == {<<>>, << <<"x">> >>} \cup {<<Itoa(n)>> : n \in 0..MaxMF}

\* With or without a request for a protocol upgrade.
UpgradeValues == {<<>>, << <<"websocket">> >>}

\* Hops and Via entries put in by proxies in front of this one.
HopA == <<"for", <<"10.0.0.1">>, "proto", "http">>
HopB == <<"for", <<"10.0.0.2">>, "by", <<"upstream">>>>
ViaA == <<"1.0", <<"upstream">>>>

\* The other inbound headers: the names the Connection header lists, and
\* the headers set.
ExtraHeaders ==
    {[conn |-> <<>>, set |-> EmptyHeader],
     [conn |-> <<"X-Custom", "Via">>,
      set |-> [EmptyHeader EXCEPT !["X-Custom"] = << <<"v">> >>,
                                  !["Keep-Alive"] = << <<"timeout=5">> >>,
                                  !["Via"] = << <<ViaA>> >>]],
     [conn |-> <<>>,
      set |-> [EmptyHeader EXCEPT !["Forwarded"] = << <<HopA, HopB>> >>,
                                  !["X-Forwarded-For"] = << <<"10.0.0.3">> >>,
                                  !["Via"] = << <<ViaA>> >>]],
     [conn |-> <<>>,
      set |-> [EmptyHeader EXCEPT !["X-Forwarded-For"] = << <<"10.0.0.3">> >>,
                                  !["X-Forwarded-Proto"] = << <<"https">> >>]],
     [conn |-> <<"Forwarded">>,
      set |-> [EmptyHeader EXCEPT !["Forwarded"] = << <<HopA>> >>,
                                  !["X-Forwarded-For"] = << <<"10.0.0.3">> >>]]}

InboundHeader(mf, up, ex) ==
    LET listed == (IF Len(up) = 0 THEN <<>> ELSE <<"Upgrade">>) \o ex.conn
    IN  [ex.set EXCEPT !["Max-Forwards"] = mf,
                       !["Upgrade"] = up,
                       !["Connection"] = IF Len(listed) = 0 THEN <<>> ELSE <<listed>>]

Requests ==
    {[method |-> m, urlHost |-> uh, urlScheme |-> sc, host |-> h,
      header |-> InboundHeader(mf, up, ex),
      remoteAddr |-> RemoteAddr, localAddr |-> la, proto |-> "1.1"] :
        m \in Methods, uh \in UrlHosts, sc \in Schemes, h \in HostValues,
        mf \in MaxForwardsValues, up \in UpgradeValues, ex \in ExtraHeaders,
        la \in LocalAddrs}

\* Responses a backend may give.
ResponseHeaders ==
    {[EmptyHeader EXCEPT !["Content-Type"] = << <<"text/plain">> >>],
     [EmptyHeader EXCEPT !["Upgrade"] = << <<"websocket">> >>,
                         !["Connection"] = << <<"Upgrade">> >>,
                         !["Keep-Alive"] = << <<"timeout=5">> >>],
     [EmptyHeader EXCEPT !["Content-Type"] = << <<"text/plain">> >>,
                         !["Connection"] = << <<"X-Custom">> >>,
                         !["X-Custom"] = << <<"v">> >>]}
\* Trailers a backend may send after the body.
ResponseTrailers ==
    {EmptyHeader,
     [EmptyHeader EXCEPT !["X-Custom"] = << <<"t">> >>,
                         !["Keep-Alive"] = << <<"timeout=5">> >>]}
ResponseStatuses == {StatusOK, StatusSwitchingProtocols, StatusBadRequest}
Responses ==
    {r \in [status : ResponseStatuses, header : ResponseHeaders,
            trailer : ResponseTrailers] :
        Len(r.header["Upgrade"]) > 0 => r.trailer = EmptyHeader}
NoResponse == [status |-> 0, header |-> EmptyHeader, trailer |-> EmptyHeader]

Init ==
    /\ req \in Requests
    /\ outreq = [method |-> req.method, urlHost |-> NoAddr, urlScheme |-> "",
                 header |-> EmptyHeader, proto |-> req.proto]
    /\ pc = "Received"
    /\ written = <<>>
    /\ wHeader = EmptyHeader
    /\ bodyWritten = FALSE
    /\ res = NoResponse
    /\ dials = 0
    /\ exchanges = 0
    /\ takeovers = 0
    /\ backend = "none"
    /\ frontend = "none"
    /\ backendCloses = 0
    /\ frontendCloses = 0
    /\ reqCancelled = FALSE
    /\ cancelled = FALSE
    /\ relay = [d \in Dirs |-> "idle"]
    /\ join = 0
    /\ done = 0
    /\ flushed = FALSE
    /\ flushOk = {}
    /\ copying = {}
    /\ panicked = FALSE
    /\ failure = "none"
    /\ path = "none"

(***************************************************************************)
(* ServeHTTP.                                                              *)
(***************************************************************************)
\* Lines 57-86: the outbound request.
\* Variant of Normalize: the stripping of line 86 is left out.
Normalize_KeepsHopFields ==
    /\ pc = "Received"
    /\ outreq' = [method |-> req.method,
                  urlHost |-> IF Len(req.urlHost) = 0 THEN req.host ELSE req.urlHost,
                  urlScheme |-> IF Len(req.urlScheme) = 0
                                THEN guessScheme(req.localAddr, req.urlHost)
                                ELSE req.urlScheme,
                  header |-> copyHeader(EmptyHeader, req.header),
                  proto |-> "1.1"]
    /\ pc' = "Normalized"
    /\ UNCHANGED <<req, respVars, callVars, connVars, taskVars, reqCancelled,
                   cancelled, panicked, failure, path>>

Normalize ==
    /\ pc = "Received"
    /\ outreq' = [method |-> req.method,
                  urlHost |-> IF Len(req.urlHost) = 0 THEN req.host ELSE req.urlHost,
                  urlScheme |-> IF Len(req.urlScheme) = 0
                                THEN guessScheme(req.localAddr, req.urlHost)
                                ELSE req.urlScheme,
                  header |-> deleteHopFields(copyHeader(EmptyHeader, req.header)),
                  proto |-> "1.1"]
    /\ pc' = "Normalized"
    /\ UNCHANGED <<req, respVars, callVars, connVars, taskVars, reqCancelled,
                   cancelled, panicked, failure, path>>

\* Variant of HostMissing: the test of line 90 is left out.
HostMissing_Unchecked(o) == FALSE

\* Line 90: no host to forward to.
HostMissing(o) == Len(o.urlHost) = 0

\* Lines 90-93.
ClientError ==
    /\ pc = "Normalized"
    /\ HostMissing(outreq)
    /\ written' = Append(written, StatusBadRequest)
    /\ path' = "ClientError"
    /\ pc' = "Completed"
    /\ UNCHANGED <<reqVars, wHeader, bodyWritten, res, callVars, connVars, taskVars,
                   reqCancelled, cancelled, panicked, failure>>

\* Variant of ProxyHeaders: the test of line 96 is left out.
ProxyHeaders_AlwaysTranslates(h) ==
    addVia(addForwarded(translateXForwarded(h), outreq.urlScheme, req.remoteAddr,
                        req.localAddr),
           req.proto, req.localAddr)

\* Lines 96-100.
ProxyHeaders(h) ==
    LET t == IF Len(h["Forwarded"]) = 0 THEN translateXForwarded(h) ELSE h
    IN  addVia(addForwarded(t, outreq.urlScheme, req.remoteAddr, req.localAddr),
               req.proto, req.localAddr)

AddProxyHeaders ==
    /\ pc = "Normalized"
    /\ ~HostMissing(outreq)
    /\ outreq' = [outreq EXCEPT !.header = ProxyHeaders(outreq.header)]
    /\ pc' = "Switch"
    /\ UNCHANGED <<req, respVars, callVars, connVars, taskVars, reqCancelled,
                   cancelled, panicked, failure, path>>

\* Line 109: max--, then the test that sends the request back.
LoopsBack(mf) == (mf.val - 1 = 0) \/ mf.err

\* Line 106.
IsTraceOrOptions(m) == m \in {MethodTrace, MethodOptions}

\* Lines 103-105.
SwitchConnect ==
    /\ pc = "Switch"
    /\ outreq.method = MethodConnect
    /\ path' = "Connect"
    /\ pc' = "ServeCONNECT"
    /\ UNCHANGED <<reqVars, respVars, callVars, connVars, taskVars, reqCancelled,
                   cancelled, panicked, failure>>

\* Lines 106-116.
SwitchLoopback ==
    /\ pc = "Switch"
    /\ IsTraceOrOptions(outreq.method)
    /\ LoopsBack(maxForwards(outreq.header))
    /\ path' = "Loopback"
    /\ pc' = IF outreq.method = MethodTrace THEN "ServeTRACE" ELSE "ServeOPTIONS"
    /\ UNCHANGED <<reqVars, respVars, callVars, connVars, taskVars, reqCancelled,
                   cancelled, panicked, failure>>

\* Line 117 for TRACE and OPTIONS that are forwarded, nothing otherwise.
DecrementMaxForwards(o) ==
    IF IsTraceOrOptions(o.method)
    THEN [o EXCEPT !.header = Set(o.header, "Max-Forward",
                                  Itoa(maxForwards(o.header).val - 1))]
    ELSE o

\* Variant of PassesSwitch: the return of line 105 is left out, a CONNECT
\* request falls through the switch.
PassesSwitch_ConnectFallsThrough ==
    /\ pc = "Switch"
    /\ ~(IsTraceOrOptions(outreq.method) /\ LoopsBack(maxForwards(outreq.header)))

\* The request goes past the switch of line 102.
PassesSwitch ==
    /\ pc = "Switch"
    /\ outreq.method # MethodConnect
    /\ ~(IsTraceOrOptions(outreq.method) /\ LoopsBack(maxForwards(outreq.header)))

\* Lines 117-128.
SwitchUpgrade ==
    /\ PassesSwitch
    /\ Len(connectionUpgrade(req.header)) # 0
    /\ outreq' = [DecrementMaxForwards(outreq) EXCEPT
                    !.header = Set(Set(@, "Connection", <<"Upgrade">>),
                                   "Upgrade", connectionUpgrade(req.header))]
    /\ path' = "Upgrade"
    /\ pc' = "ServeUpgrade"
    /\ UNCHANGED <<req, respVars, callVars, connVars, taskVars, reqCancelled,
                   cancelled, panicked, failure>>

\* Lines 117-133.
SwitchForward ==
    /\ PassesSwitch
    /\ Len(connectionUpgrade(req.header)) = 0
    /\ outreq' = DecrementMaxForwards(outreq)
    /\ path' = "Forward"
    /\ pc' = "RoundTrip"
    /\ UNCHANGED <<req, respVars, callVars, connVars, taskVars, reqCancelled,
                   cancelled, panicked, failure>>

\* Lines 135-139: the transport fails.
RoundTripFail ==
    /\ pc = "RoundTrip"
    /\ exchanges' = exchanges + 1
    /\ written' = Append(written, StatusBadGateway)
    /\ pc' = "Completed"
    /\ failure' = "exchange"
    /\ UNCHANGED <<reqVars, wHeader, bodyWritten, res, dials, takeovers, connVars,
                   taskVars, reqCancelled, cancelled, panicked, path>>

\* Line 135: the transport answers.
RoundTripOk ==
    /\ pc = "RoundTrip"
    /\ exchanges' = exchanges + 1
    /\ \E r \in Responses : res' = r
    /\ pc' = "Respond"
    /\ UNCHANGED <<reqVars, written, wHeader, bodyWritten, dials, takeovers, connVars,
                   taskVars, reqCancelled, cancelled, panicked, failure, path>>

\* Lines 141-149.
Respond ==
    /\ pc = "Respond"
    /\ wHeader' = copyHeader(copyHeader(wHeader, deleteHopFields(res.header)),
                             deleteHopFields(res.trailer))
    /\ written' = Append(written, res.status)
    /\ bodyWritten' = TRUE
    /\ pc' = "Completed"
    /\ UNCHANGED <<reqVars, res, callVars, connVars, taskVars, reqCancelled,
                   cancelled, panicked, failure, path>>

(***************************************************************************)
(* serveOPTIONS and serveTRACE.                                            *)
(***************************************************************************)
\* Lines 211-213.
ServeOPTIONS ==
    /\ pc = "ServeOPTIONS"
    /\ written' = Append(written, StatusOK)
    /\ pc' = "Completed"
    /\ UNCHANGED <<reqVars, wHeader, bodyWritten, res, callVars, connVars, taskVars,
                   reqCancelled, cancelled, panicked, failure, path>>

\* Lines 216, 220-222: the request is dumped and sent back.
ServeTRACEOk ==
    /\ pc = "ServeTRACE"
    /\ wHeader' = Set(wHeader, "Content-Type", <<"message/http">>)
    /\ written' = Append(written, StatusOK)
    /\ bodyWritten' = TRUE
    /\ pc' = "Completed"
    /\ UNCHANGED <<reqVars, res, callVars, connVars, taskVars, reqCancelled,
                   cancelled, panicked, failure, path>>

\* Lines 216-219: httputil.DumpRequest fails (the body cannot be read).
ServeTRACEPanic ==
    /\ pc = "ServeTRACE"
    /\ panicked' = TRUE
    /\ pc' = "Completed"
    /\ failure' = "dump"
    /\ UNCHANGED <<reqVars, respVars, callVars, connVars, taskVars, reqCancelled,
                   cancelled, path>>

(***************************************************************************)
(* serveCONNECT.  Its deferred calls run, last deferred first, when it     *)
(* returns or panics: frontend.Close, backend.Close, cancel, join.Wait.    *)
(***************************************************************************)
\* ctx.Done() of serveCONNECT's context, derived from the request's.
CtxDone == reqCancelled \/ cancelled

\* Variant of ConnectDialFail: the return of line 167 is left out.
ConnectDialFail_NoReturn ==
    /\ pc = "ServeCONNECT"
    /\ dials' = dials + 1
    /\ written' = Append(written, StatusBadGateway)
    /\ pc' = "ConnectAck"
    /\ failure' = "dial"
    /\ UNCHANGED <<reqVars, wHeader, bodyWritten, res, exchanges, takeovers, connVars,
                   taskVars, reqCancelled, cancelled, panicked, path>>

\* Lines 164-168: the dial fails; cancel and join.Wait run on return.
ConnectDialFail ==
    /\ pc = "ServeCONNECT"
    /\ dials' = dials + 1
    /\ written' = Append(written, StatusBadGateway)
    /\ cancelled' = TRUE
    /\ pc' = "Completed"
    /\ failure' = "dial"
    /\ UNCHANGED <<reqVars, wHeader, bodyWritten, res, exchanges, takeovers, connVars,
                   taskVars, reqCancelled, panicked, path>>

\* Line 164: the dial succeeds.
ConnectDialOk ==
    /\ pc = "ServeCONNECT"
    /\ dials' = dials + 1
    /\ backend' = "open"
    /\ pc' = "ConnectAck"
    /\ UNCHANGED <<reqVars, respVars, exchanges, takeovers, frontend, backendCloses,
                   frontendCloses, taskVars, reqCancelled, cancelled, panicked, failure, path>>

\* Lines 171-173: the request body is discarded, 200 is written.
ConnectAck ==
    /\ pc = "ConnectAck"
    /\ written' = Append(written, StatusOK)
    /\ pc' = "ConnectHijack"
    /\ UNCHANGED <<reqVars, wHeader, bodyWritten, res, callVars, connVars, taskVars,
                   reqCancelled, cancelled, panicked, failure, path>>

\* Variant of ConnectHijackPanic: backend.Close is deferred after Hijack
\* instead of line 169, and does not run when Hijack fails.
ConnectHijackPanic_BackendLeft ==
    /\ pc = "ConnectHijack"
    /\ takeovers' = takeovers + 1
    /\ cancelled' = TRUE
    /\ panicked' = TRUE
    /\ pc' = "Completed"
    /\ failure' = "hijack"
    /\ UNCHANGED <<reqVars, respVars, dials, exchanges, connVars, taskVars,
                   reqCancelled, path>>

\* Lines 175-178: Hijack fails and the handler panics; backend.Close,
\* cancel and join.Wait run while the panic unwinds.
ConnectHijackPanic ==
    /\ pc = "ConnectHijack"
    /\ takeovers' = takeovers + 1
    /\ backend' = "closed"
    /\ backendCloses' = backendCloses + 1
    /\ cancelled' = TRUE
    /\ panicked' = TRUE
    /\ pc' = "Completed"
    /\ failure' = "hijack"
    /\ UNCHANGED <<reqVars, respVars, dials, exchanges, frontend, frontendCloses,
                   taskVars, reqCancelled, path>>

\* Lines 175-207: Hijack succeeds and both relay goroutines are started.
ConnectHijackOk ==
    /\ pc = "ConnectHijack"
    /\ takeovers' = takeovers + 1
    /\ frontend' = "open"
    /\ join' = join + 2
    /\ relay' = [d \in Dirs |-> "flush"]
    /\ pc' = "ConnectWait"
    /\ UNCHANGED <<reqVars, respVars, dials, exchanges, backend, backendCloses,
                   frontendCloses, done, flushed, flushOk, copying, reqCancelled, cancelled, panicked, failure, path>>

\* Variant of ConnectWakes: line 208 does not wait for the context.
ConnectWakes_NoWait == TRUE

\* Line 208: what serveCONNECT waits for before it returns.
ConnectWakes == CtxDone

\* Variant of ConnectTeardown: the deferred frontend.Close of line 179 is
\* left out.
ConnectTeardown_NoFrontendClose ==
    /\ pc = "ConnectWait"
    /\ ConnectWakes
    /\ backend' = "closed"
    /\ backendCloses' = backendCloses + 1
    /\ cancelled' = TRUE
    /\ pc' = "ConnectJoin"
    /\ UNCHANGED <<reqVars, respVars, callVars, frontend, frontendCloses, taskVars,
                   reqCancelled, panicked, failure, path>>

\* Lines 208, 179, 169, 162: the context is done; frontend.Close,
\* backend.Close and cancel run.
ConnectTeardown ==
    /\ pc = "ConnectWait"
    /\ ConnectWakes
    /\ frontend' = "closed"
    /\ frontendCloses' = frontendCloses + 1
    /\ backend' = "closed"
    /\ backendCloses' = backendCloses + 1
    /\ cancelled' = TRUE
    /\ pc' = "ConnectJoin"
    /\ UNCHANGED <<reqVars, respVars, callVars, taskVars, reqCancelled, panicked, failure, path>>

\* Variant of JoinReady: the deferred join.Wait of line 159 is left out.
JoinReady_NoWait == TRUE

\* Line 159: what join.Wait waits for.
JoinReady == join = 0

\* Line 159: join.Wait returns and so does serveCONNECT.
ConnectJoin ==
    /\ pc = "ConnectJoin"
    /\ JoinReady
    /\ pc' = "Completed"
    /\ UNCHANGED <<reqVars, respVars, callVars, connVars, taskVars, reqCancelled,
                   cancelled, panicked, failure, path>>

\* Lines 186-188, 199-201: the buffered bytes of one direction are written
\* out and the copy between the connections begins.
ConnectFlushOk(d) ==
    /\ path = "Connect"
    /\ relay[d] = "flush"
    /\ relay' = [relay EXCEPT ![d] = "copy"]
    /\ flushOk' = flushOk \cup {d}
    /\ copying' = copying \cup {d}
    /\ UNCHANGED <<reqVars, pc, respVars, callVars, connVars, join, done, flushed,
                   reqCancelled, cancelled, panicked, failure, path>>

\* Variant of ConnectFlushFail: the return of lines 187 and 200 is left
\* out, the copy starts although the write-out failed.
ConnectFlushFail_NoReturn(d) ==
    /\ path = "Connect"
    /\ relay[d] = "flush"
    /\ relay' = [relay EXCEPT ![d] = "copy"]
    /\ copying' = copying \cup {d}
    /\ failure' = "flush"
    /\ UNCHANGED <<reqVars, pc, respVars, callVars, connVars, join, done, flushed,
                   flushOk, reqCancelled, cancelled, panicked, path>>

\* Lines 183-188, 196-201: writing out the buffered bytes fails; the
\* goroutine ends, cancel and join.Done run.
ConnectFlushFail(d) ==
    /\ path = "Connect"
    /\ relay[d] = "flush"
    /\ relay' = [relay EXCEPT ![d] = "done"]
    /\ cancelled' = TRUE
    /\ join' = join - 1
    /\ failure' = "flush"
    /\ UNCHANGED <<reqVars, pc, respVars, callVars, connVars, done, flushed, flushOk, copying,
                   reqCancelled, panicked, path>>

\* Lines 183-184, 191, 204: netx.Copy returns (end of stream or error);
\* the goroutine ends, cancel and join.Done run.
ConnectCopyEnd(d) ==
    /\ path = "Connect"
    /\ relay[d] = "copy"
    /\ relay' = [relay EXCEPT ![d] = "done"]
    /\ cancelled' = TRUE
    /\ join' = join - 1
    /\ UNCHANGED <<reqVars, pc, respVars, callVars, connVars, done, flushed, flushOk, copying,
                   reqCancelled, panicked, failure, path>>

(***************************************************************************)
(* serveUpgrade.  Its deferred calls: frontend.Close, backend.Close.       *)
(***************************************************************************)
\* Lines 233-237: the dial fails.
UpgradeDialFail ==
    /\ pc = "ServeUpgrade"
    /\ dials' = dials + 1
    /\ written' = Append(written, StatusBadGateway)
    /\ pc' = "Completed"
    /\ failure' = "dial"
    /\ UNCHANGED <<reqVars, wHeader, bodyWritten, res, exchanges, takeovers, connVars,
                   taskVars, reqCancelled, cancelled, panicked, path>>

\* Lines 233-241: the dial succeeds (the connection is wrapped for https).
UpgradeDialOk ==
    /\ pc = "ServeUpgrade"
    /\ dials' = dials + 1
    /\ backend' = "open"
    /\ pc' = "UpgradeExchange"
    /\ UNCHANGED <<reqVars, respVars, exchanges, takeovers, frontend, backendCloses,
                   frontendCloses, taskVars, reqCancelled, cancelled, panicked, failure, path>>

\* Lines 243-250, 241: the exchange on the dedicated connection fails.
UpgradeExchangeFail ==
    /\ pc = "UpgradeExchange"
    /\ exchanges' = exchanges + 1
    /\ written' = Append(written, StatusBadGateway)
    /\ backend' = "closed"
    /\ backendCloses' = backendCloses + 1
    /\ pc' = "Completed"
    /\ failure' = "exchange"
    /\ UNCHANGED <<reqVars, wHeader, bodyWritten, res, dials, takeovers, frontend,
                   frontendCloses, taskVars, reqCancelled, cancelled, panicked, path>>

\* Lines 243-246: the backend answers.
UpgradeExchangeOk ==
    /\ pc = "UpgradeExchange"
    /\ exchanges' = exchanges + 1
    /\ \E r \in Responses : res' = r
    /\ pc' = "UpgradeRespond"
    /\ UNCHANGED <<reqVars, written, wHeader, bodyWritten, dials, takeovers, connVars,
                   taskVars, reqCancelled, cancelled, panicked, failure, path>>

\* Lines 255-260: the response header without its hop-by-hop fields, the
\* Upgrade header kept.
UpgradeResponseHeader(h) ==
    LET upgrade == h["Upgrade"]
        stripped == deleteHopFields(h)
    IN  IF Len(upgrade) # 0
        THEN [stripped EXCEPT !["Upgrade"] = upgrade,
                              !["Connection"] = << <<"Upgrade">> >>]
        ELSE stripped

\* Lines 255-264: the response is written to the client.
UpgradeRespond ==
    /\ pc = "UpgradeRespond"
    /\ wHeader' = copyHeader(wHeader, UpgradeResponseHeader(res.header))
    /\ written' = Append(written, res.status)
    /\ bodyWritten' = TRUE
    /\ pc' = "UpgradeCheck"
    /\ UNCHANGED <<reqVars, res, callVars, connVars, taskVars, reqCancelled,
                   cancelled, panicked, failure, path>>

\* Variant of Switched: the test of line 268 is left out.
Switched_Unchecked(r) == TRUE

\* Line 268: the backend switched protocols.
Switched(r) == r.status = StatusSwitchingProtocols

\* Lines 268-270, 241: no protocol switch; backend.Close runs on return.
UpgradeNotSwitched ==
    /\ pc = "UpgradeCheck"
    /\ ~Switched(res)
    /\ backend' = "closed"
    /\ backendCloses' = backendCloses + 1
    /\ pc' = "Completed"
    /\ UNCHANGED <<reqVars, respVars, callVars, frontend, frontendCloses, taskVars,
                   reqCancelled, cancelled, panicked, failure, path>>

\* Lines 278-282, 241: Hijack fails; 500 is passed to WriteHeader.
UpgradeHijackFail ==
    /\ pc = "UpgradeCheck"
    /\ Switched(res)
    /\ takeovers' = takeovers + 1
    /\ written' = Append(written, StatusInternalServerError)
    /\ backend' = "closed"
    /\ backendCloses' = backendCloses + 1
    /\ pc' = "Completed"
    /\ failure' = "hijack"
    /\ UNCHANGED <<reqVars, wHeader, bodyWritten, res, dials, exchanges, frontend,
                   frontendCloses, taskVars, reqCancelled, cancelled, panicked, path>>

\* Lines 278-283: Hijack succeeds.
UpgradeHijackOk ==
    /\ pc = "UpgradeCheck"
    /\ Switched(res)
    /\ takeovers' = takeovers + 1
    /\ frontend' = "open"
    /\ pc' = "UpgradeFlush"
    /\ UNCHANGED <<reqVars, respVars, dials, exchanges, backend, backendCloses,
                   frontendCloses, taskVars, reqCancelled, cancelled, panicked, failure, path>>

\* Variant of UpgradeFlushFail: the return of line 286 is left out.
UpgradeFlushFail_NoReturn ==
    /\ pc = "UpgradeFlush"
    /\ relay' = [d \in Dirs |-> "copy"]
    /\ copying' = Dirs
    /\ pc' = "UpgradeWait"
    /\ failure' = "flush"
    /\ UNCHANGED <<reqVars, respVars, callVars, connVars, join, done, flushOk, flushed,
                   reqCancelled, cancelled, panicked, path>>

\* Lines 285-287, 283, 241: the flush fails, the client is gone.
UpgradeFlushFail ==
    /\ pc = "UpgradeFlush"
    /\ frontend' = "closed"
    /\ frontendCloses' = frontendCloses + 1
    /\ backend' = "closed"
    /\ backendCloses' = backendCloses + 1
    /\ pc' = "Completed"
    /\ failure' = "flush"
    /\ UNCHANGED <<reqVars, respVars, callVars, taskVars, reqCancelled, cancelled,
                   panicked, path>>

\* Lines 285-291: the flush succeeds and both forward goroutines are started.
UpgradeFlushOk ==
    /\ pc = "UpgradeFlush"
    /\ flushed' = TRUE
    /\ relay' = [d \in Dirs |-> "copy"]
    /\ copying' = Dirs
    /\ pc' = "UpgradeWait"
    /\ UNCHANGED <<reqVars, respVars, callVars, connVars, join, done, flushOk, reqCancelled,
                   cancelled, panicked, failure, path>>

\* Lines 295-296, 283, 241: a signal is received from done.
UpgradeWakeDone ==
    /\ pc = "UpgradeWait"
    /\ done > 0
    /\ done' = done - 1
    /\ frontend' = "closed"
    /\ frontendCloses' = frontendCloses + 1
    /\ backend' = "closed"
    /\ backendCloses' = backendCloses + 1
    /\ pc' = "Completed"
    /\ UNCHANGED <<reqVars, respVars, callVars, relay, join, flushed, flushOk, copying, reqCancelled,
                   cancelled, panicked, failure, path>>

\* Variant of UpgradeWakeCancelled: the deferred Close calls of lines 241
\* and 283 are left out.
UpgradeWakeCancelled_NoClose ==
    /\ pc = "UpgradeWait"
    /\ reqCancelled
    /\ pc' = "Completed"
    /\ UNCHANGED <<reqVars, respVars, callVars, connVars, taskVars, reqCancelled,
                   cancelled, panicked, failure, path>>

\* Lines 295, 297, 283, 241: the request's context is done.
UpgradeWakeCancelled ==
    /\ pc = "UpgradeWait"
    /\ reqCancelled
    /\ frontend' = "closed"
    /\ frontendCloses' = frontendCloses + 1
    /\ backend' = "closed"
    /\ backendCloses' = backendCloses + 1
    /\ pc' = "Completed"
    /\ UNCHANGED <<reqVars, respVars, callVars, taskVars, reqCancelled, cancelled,
                   panicked, failure, path>>

\* Line 320: netx.Copy of one forward goroutine returns.
ForwardCopyEnd(d) ==
    /\ path = "Upgrade"
    /\ relay[d] = "copy"
    /\ relay' = [relay EXCEPT ![d] = "signal"]
    /\ UNCHANGED <<reqVars, pc, respVars, callVars, connVars, join, done, flushed, flushOk, copying,
                   reqCancelled, cancelled, panicked, failure, path>>

\* Line 319: the deferred send on done; it blocks while the channel is full.
ForwardSignal(d) ==
    /\ path = "Upgrade"
    /\ relay[d] = "signal"
    /\ done < DoneCap
    /\ done' = done + 1
    /\ relay' = [relay EXCEPT ![d] = "done"]
    /\ UNCHANGED <<reqVars, pc, respVars, callVars, connVars, join, flushed, flushOk, copying,
                   reqCancelled, cancelled, panicked, failure, path>>

(***************************************************************************)
(* The environment and the specification.                                  *)
(***************************************************************************)
\* The request's context is cancelled (client gone, server shutdown).
CancelRequest ==
    /\ pc # "Completed"
    /\ ~reqCancelled
    /\ reqCancelled' = TRUE
    /\ UNCHANGED <<reqVars, pc, respVars, callVars, connVars, taskVars, cancelled,
                   panicked, failure, path>>

Handler ==
    \/ Normalize \/ ClientError \/ AddProxyHeaders
    \/ SwitchConnect \/ SwitchLoopback \/ SwitchUpgrade \/ SwitchForward
    \/ RoundTripFail \/ RoundTripOk \/ Respond
    \/ ServeOPTIONS \/ ServeTRACEOk \/ ServeTRACEPanic
    \/ ConnectDialFail \/ ConnectDialOk \/ ConnectAck
    \/ ConnectHijackPanic \/ ConnectHijackOk \/ ConnectTeardown \/ ConnectJoin
    \/ UpgradeDialFail \/ UpgradeDialOk \/ UpgradeExchangeFail \/ UpgradeExchangeOk
    \/ UpgradeRespond \/ UpgradeNotSwitched \/ UpgradeHijackFail \/ UpgradeHijackOk
    \/ UpgradeFlushFail \/ UpgradeFlushOk \/ UpgradeWakeDone \/ UpgradeWakeCancelled

Relays ==
    \E d \in Dirs :
        \/ ConnectFlushOk(d) \/ ConnectFlushFail(d) \/ ConnectCopyEnd(d)
        \/ ForwardCopyEnd(d) \/ ForwardSignal(d)

Next == Handler \/ Relays \/ CancelRequest

Spec == Init /\ [][Next]_vars

\* Runnable goroutines are scheduled: the handler takes its next step when
\* it has one, and a forward goroutine whose copy has returned sends its
\* signal when the channel has room.
FairSpec ==
    /\ Spec
    /\ WF_vars(Handler)
    /\ WF_vars(ForwardSignal(C2B))
    /\ WF_vars(ForwardSignal(B2C))

\* A blocked write-out or copy of a relay goroutine returns once one of its
\* two connections is closed.
RelayUnblocks(d) ==
    /\ frontend = "closed" \/ backend = "closed"
    /\ \/ ConnectFlushOk(d) \/ ConnectFlushFail(d) \/ ConnectCopyEnd(d)
       \/ ForwardCopyEnd(d)

\* FairSpec, and reads and writes on a closed connection return.
TunnelFairSpec ==
    /\ FairSpec
    /\ WF_vars(RelayUnblocks(C2B))
    /\ WF_vars(RelayUnblocks(B2C))

(***************************************************************************)
(* Properties.                                                             *)
(***************************************************************************)
\* The inbound request names no target: empty URL host and empty Host.
NoTargetHost == Len(req.urlHost) = 0 /\ Len(req.host) = 0

\* The inbound Max-Forwards header is the decimal form of n.
InboundMaxForwardsIs(n) == req.header["Max-Forwards"] = <<Itoa(n)>>

\* Nothing was sent towards a backend.
NotForwarded == dials = 0 /\ exchanges = 0

\* A relay goroutine that was started and has not ended.
Running(d) == relay[d] \in {"flush", "copy", "signal"}

\* C1: a request without a target host is answered 400, and no dial, no
\* transport exchange and no connection takeover happens for it, whatever
\* its method and headers.
C1_NoTargetHostIs400 ==
    NoTargetHost =>
        /\ NotForwarded
        /\ takeovers = 0
        /\ pc = "Completed" => written = <<StatusBadRequest>>

C1_Witness ==
    /\ NoTargetHost
    /\ req.method = MethodConnect
    /\ Len(req.header["Upgrade"]) # 0
    /\ pc = "Completed"
    /\ written = <<StatusBadRequest>>

\* C2: a TRACE or OPTIONS request with a target host and Max-Forwards: 0 is
\* answered locally with 200 and is not forwarded.
C2_MaxForwardsZeroLoopsBack ==
    (IsTraceOrOptions(req.method) /\ ~NoTargetHost /\ InboundMaxForwardsIs(0)) =>
        /\ NotForwarded
        /\ pc = "Completed" => written = <<StatusOK>>

\* C3: a TRACE or OPTIONS request whose Max-Forwards is absent, unparsable
\* or 1 is not forwarded and is answered locally with 200.
C3_GuardLoopsBackWith200 ==
    (/\ IsTraceOrOptions(req.method)
     /\ ~NoTargetHost
     /\ \/ Len(req.header["Max-Forwards"]) = 0
        \/ req.header["Max-Forwards"] = << <<"x">> >>
        \/ InboundMaxForwardsIs(1)) =>
        /\ NotForwarded
        /\ pc = "Completed" => written = <<StatusOK>>

\* C4: a TRACE or OPTIONS request with Max-Forwards: N, N >= 2, is forwarded
\* and its outbound Max-Forwards header carries N-1.
C4_MaxForwardsDecremented ==
    \A n \in 2..MaxMF :
        (/\ IsTraceOrOptions(req.method)
         /\ ~NoTargetHost
         /\ InboundMaxForwardsIs(n)
         /\ pc \notin {"Received", "Normalized", "Switch"}) =>
            /\ path \in {"Forward", "Upgrade"}
            /\ outreq.header["Max-Forwards"] = <<Itoa(n - 1)>>

\* C5: when the backend cannot be reached (the dial or the exchange fails),
\* 502 is the only status written, and no takeover of the client connection
\* is attempted.
C5_UnreachableIs502 ==
    failure \in {"dial", "exchange"} =>
        /\ written = <<StatusBadGateway>>
        /\ takeovers = 0
        /\ frontend = "none"

C5_Witness ==
    /\ path = "Connect"
    /\ failure = "dial"
    /\ pc = "Completed"
    /\ written = <<StatusBadGateway>>

\* Both relay goroutines of a tunnel were started and the handler waits.
TunnelOpen == pc \in {"ConnectWait", "UpgradeWait"}

\* The request's context is cancelled, or a relay direction has ended.
TunnelEnding == reqCancelled \/ \E d \in Dirs : relay[d] \in {"signal", "done"}

\* C6: once the context of an open tunnel is cancelled or a relay direction
\* has ended, the client and the backend connection are eventually closed,
\* and neither is ever closed twice.
C6_TunnelClosesBothOnce ==
    /\ [](frontendCloses <= 1 /\ backendCloses <= 1)
    /\ (TunnelOpen /\ TunnelEnding) ~> (frontendCloses = 1 /\ backendCloses = 1)

C6_Witness ==
    /\ path \in {"Connect", "Upgrade"}
    /\ \E d \in Dirs : relay[d] \in {"signal", "done"}
    /\ frontend = "closed" /\ frontendCloses = 1
    /\ backend = "closed" /\ backendCloses = 1

\* C7 as stated: when serveCONNECT or serveUpgrade has returned, no relay
\* goroutine it started is still running.
C7_NoRelayOutlivesHandler ==
    pc = "Completed" => \A d \in Dirs : ~Running(d)

\* C7 amended: when serveCONNECT has returned, no relay goroutine is still
\* running; when serveUpgrade has returned, a relay goroutine may still be
\* running, but both connections are closed.
C7_RelaysJoinedOrConnectionsClosed ==
    pc = "Completed" =>
        /\ path = "Connect" => \A d \in Dirs : ~Running(d)
        /\ (path = "Upgrade" /\ \E d \in Dirs : Running(d)) =>
               (frontend = "closed" /\ backend = "closed")

C7_Witness ==
    /\ pc = "Completed"
    /\ path = "Connect"
    /\ \A d \in Dirs : relay[d] = "done"

\* C8 as stated: on the CONNECT path without outside cancellation, the
\* connections are closed only after both relay directions have ended.
C8_ClosesAfterBothDirections ==
    (path = "Connect" /\ ~reqCancelled /\ frontend = "closed") =>
        \A d \in Dirs : relay[d] = "done"

\* C8 amended: on the CONNECT path without outside cancellation, the
\* connections are closed only after at least one relay direction has ended
\* (it fires the cancellation signal); the end of one direction is enough.
\* The handler's return alone waits for both directions.
C8_ClosesAfterFirstDirection ==
    (path = "Connect" /\ ~reqCancelled /\ frontend = "closed") =>
        /\ \E d \in Dirs : relay[d] = "done"
        /\ pc = "Completed" => \A d \in Dirs : relay[d] = "done"

C8_Witness ==
    /\ path = "Connect"
    /\ ~reqCancelled
    /\ frontend = "closed" /\ backend = "closed"
    /\ relay[C2B] = "done"
    /\ relay[B2C] = "copy"

\* C9: on the upgrade path Hijack is called only after status, headers and
\* body of the response were written to the client, and a relay goroutine
\* runs only after the buffered response bytes were flushed.
C9_RespondThenHijackThenFlush ==
    path = "Upgrade" =>
        /\ takeovers > 0 => (written # <<>> /\ written[1] = res.status /\ bodyWritten)
        /\ (\E d \in Dirs : relay[d] # "idle") => (flushed /\ takeovers > 0)

C9_Witness ==
    /\ path = "Upgrade"
    /\ takeovers = 1
    /\ written = <<StatusSwitchingProtocols>>
    /\ flushed
    /\ relay[B2C] = "copy"

\* C10: on the upgrade path a response whose status is not 101 is passed to
\* the client with its body, no Hijack is called, no relay goroutine is
\* started, and the dedicated backend connection is closed, after its one
\* exchange, when the handler returns.
C10_NotSwitchedNoTunnel ==
    (path = "Upgrade" /\ res # NoResponse /\ res.status # StatusSwitchingProtocols) =>
        /\ takeovers = 0
        /\ frontend = "none"
        /\ \A d \in Dirs : relay[d] = "idle"
        /\ exchanges = 1
        /\ pc = "Completed" =>
               /\ written = <<res.status>>
               /\ bodyWritten
               /\ backend = "closed"
               /\ backendCloses = 1

C10_Witness ==
    /\ path = "Upgrade"
    /\ res.status = StatusOK
    /\ pc = "Completed"
    /\ written = <<StatusOK>>
    /\ backend = "closed"

\* C11: on the upgrade path 500 is passed to WriteHeader only when no status
\* was committed before, and no second status is ever written.
C11_NoSecondStatus ==
    path = "Upgrade" =>
        /\ Len(written) <= 1
        /\ \A i \in 1..Len(written) : written[i] = StatusInternalServerError => i = 1

\* The branch the switch of ServeHTTP is to take for the inbound request.
ExpectedBranch ==
    IF req.method = MethodConnect THEN "Connect"
    ELSE IF IsTraceOrOptions(req.method)
            /\ LoopsBack(maxForwards(deleteHopFields(req.header))) THEN "Loopback"
    ELSE IF Len(connectionUpgrade(req.header)) # 0 THEN "Upgrade"
    ELSE "Forward"

\* C16: a request with a target host takes the one branch its method, its
\* Max-Forwards guard and its Connection header select, in that priority;
\* the dialer is called at most once, and only on the CONNECT and upgrade
\* paths, and an exchange happens at most once, and never on the CONNECT
\* and loopback paths.
C16_OneBranchByPriority ==
    (~NoTargetHost /\ path # "none") =>
        /\ path = ExpectedBranch
        /\ dials <= 1 /\ exchanges <= 1
        /\ dials > 0 => path \in {"Connect", "Upgrade"}
        /\ exchanges > 0 => path \in {"Upgrade", "Forward"}
        /\ path = "Forward" => dials = 0

C16_Witness ==
    /\ req.method = MethodConnect
    /\ Len(connectionUpgrade(req.header)) # 0
    /\ path = "Connect"
    /\ dials = 1
    /\ pc = "Completed"

\* C18: when the request cannot be dumped for a TRACE loopback, 500 is
\* written and the handler ends without a panic.
C18_DumpFailureIs500 ==
    failure = "dump" => (written = <<StatusInternalServerError>> /\ ~panicked)

\* C19: a backend connection that was dialed is closed exactly once when
\* the handler has ended, on every exit path, and never closed twice.
C19_BackendClosedOnce ==
    /\ backendCloses <= 1
    /\ (pc = "Completed" /\ backend # "none") =>
           (backend = "closed" /\ backendCloses = 1)

C19_Witness ==
    /\ path = "Connect"
    /\ panicked
    /\ failure = "hijack"
    /\ backend = "closed"
    /\ backendCloses = 1

\* C20: on the upgrade path a forward goroutine that is to send its signal
\* always finds room in the done channel, whether or not the handler still
\* receives; at most one signal per goroutine is ever buffered.
C20_SignalNeverBlocks ==
    path = "Upgrade" =>
        /\ \A d \in Dirs : relay[d] = "signal" => done < DoneCap
        /\ done <= Cardinality({d \in Dirs : relay[d] = "done"})

C20_Witness ==
    /\ path = "Upgrade"
    /\ pc = "Completed"
    /\ reqCancelled
    /\ done = DoneCap
    /\ \A d \in Dirs : relay[d] = "done"

\* C15: when the request's context is cancelled while a tunnel is open, the
\* handler eventually has closed both connections and returned, and both
\* relay goroutines eventually have ended, given that a blocked copy
\* returns once one of its connections is closed.
C15_CancelEndsTunnel ==
    (TunnelOpen /\ reqCancelled) ~>
        /\ pc = "Completed"
        /\ frontend = "closed" /\ backend = "closed"
        /\ \A d \in Dirs : relay[d] = "done"

C15_Witness ==
    /\ path = "Connect"
    /\ reqCancelled
    /\ pc = "Completed"
    /\ frontend = "closed" /\ backend = "closed"
    /\ \A d \in Dirs : relay[d] = "done"

\* C17: on the CONNECT path the copy between the connections starts, in
\* each direction, only after that direction's buffered bytes were written
\* out; a direction whose write-out failed never copies, has ended, and the
\* cancellation signal is fired.
C17_FlushBeforeCopy ==
    path = "Connect" =>
        /\ copying \subseteq flushOk
        /\ \A d \in Dirs :
               (relay[d] = "done" /\ d \notin flushOk) => (d \notin copying /\ cancelled)
        /\ \A d \in Dirs : relay[d] = "copy" => d \in flushOk

C17_Witness ==
    /\ path = "Connect"
    /\ relay[C2B] = "done" /\ C2B \notin flushOk /\ C2B \notin copying
    /\ relay[B2C] = "copy" /\ B2C \in flushOk
    /\ cancelled


(***************************************************************************)
(* Scheme inference, Forwarded hops, hop-by-hop headers.                   *)
(***************************************************************************)
\* The address the request is sent to: the URL host, else the Host header.
EffectiveTarget == IF Len(req.urlHost) = 0 THEN req.host ELSE req.urlHost

\* The address ends with the port 443.
Port443(addr) ==
    Len(addr) >= 2 /\ addr[Len(addr)] = "443" /\ addr[Len(addr) - 1] = ":"

\* The request came in through a TLS listener.
TlsListener == Len(req.localAddr) >= 2 /\ req.localAddr[1] = "tls" /\ req.localAddr[2] = "://"

\* C14: when the inbound URL has no scheme, the outbound scheme is https
\* exactly when the listener is TLS or the port of the effective target
\* (the Host header target included) is 443, and http otherwise; a scheme
\* given on the inbound URL is kept.
C14_SchemeFromListenerOrTargetPort ==
    pc # "Received" =>
        outreq.urlScheme =
            IF req.urlScheme # "" THEN req.urlScheme
            ELSE IF TlsListener \/ Port443(EffectiveTarget) THEN "https"
            ELSE "http"

\* The proxy headers of lines 96-100 have been added.
HeadersProcessed == pc \notin {"Received", "Normalized"} /\ path # "ClientError"

\* The hops of a Forwarded header, in order.
Hops(h) == IF Len(h["Forwarded"]) = 0 THEN <<>> ELSE h["Forwarded"][1]

\* The hop this proxy describes itself with.
IsOwnHop(hop) ==
    /\ Len(hop) = 6
    /\ hop[1] = "proto" /\ hop[2] = outreq.urlScheme
    /\ hop[3] = "for" /\ hop[4] = <<"client">>
    /\ hop[5] = "by" /\ hop[6] = req.localAddr

\* The outbound hops are the inbound hops followed by this proxy's hop.
InboundHopsPlusOwn ==
    /\ Len(Hops(outreq.header)) = Len(Hops(req.header)) + 1
    /\ SubSeq(Hops(outreq.header), 1, Len(Hops(req.header))) = Hops(req.header)
    /\ IsOwnHop(Hops(outreq.header)[Len(Hops(outreq.header))])

\* C13 (as stated): for every request whose inbound headers contain a
\* Forwarded header, no hop is synthesized from the X-Forwarded-* headers
\* and the outbound Forwarded header has exactly one hop more than the
\* inbound one, this proxy's hop, appended last.
C13_ForwardedGainsOneHop ==
    (HeadersProcessed /\ Len(req.header["Forwarded"]) > 0) => InboundHopsPlusOwn

\* C13 (amended): the same, for every request whose inbound Forwarded
\* header is not listed in the inbound Connection header, that is, whose
\* Forwarded header is still there after the hop-by-hop headers are removed.
C13_KeptForwardedGainsOneHop ==
    (/\ HeadersProcessed
     /\ Len(req.header["Forwarded"]) > 0
     /\ "Forwarded" \notin Tokens(req.header["Connection"])) => InboundHopsPlusOwn

C13_Witness ==
    /\ HeadersProcessed
    /\ Hops(req.header) = <<HopA, HopB>>
    /\ Len(req.header["X-Forwarded-For"]) > 0
    /\ Len(Hops(outreq.header)) = 3
    /\ exchanges > 0

\* The names under which a header collection carries hop-by-hop headers:
\* the fixed set, and the names its own Connection header lists.
ReceivedHopNames(h) ==
    {n \in HeaderNames :
        Len(h[n]) > 0 /\ (n \in HopFields \/ n \in Tokens(h["Connection"]))}

\* The elements found in the value lines of one header.
Elems(vals) == UNION {{vals[i][j] : j \in 1..Len(vals[i])} : i \in 1..Len(vals)}

\* The names the upgrade path sets again after the stripping.
UpgradeException(n) == path = "Upgrade" /\ n \in {"Upgrade", "Connection"}

\* The request went out to the backend.
RequestSent == exchanges > 0

\* A backend response was passed on to the client.
ResponseGiven == path \in {"Forward", "Upgrade"} /\ res # NoResponse /\ Len(written) > 0

\* C12 (as stated): a hop-by-hop name found on the inbound headers is not
\* on the outbound request, and one found on the backend response (headers
\* or trailers) is not on the headers and trailers given to the client;
\* Upgrade and Connection on the upgrade path are the only exceptions.
C12_HopNamesAbsent ==
    /\ RequestSent =>
           \A n \in ReceivedHopNames(req.header) :
               Len(outreq.header[n]) = 0 \/ UpgradeException(n)
    /\ ResponseGiven =>
           \A n \in ReceivedHopNames(res.header) \cup ReceivedHopNames(res.trailer) :
               Len(wHeader[n]) = 0 \/ UpgradeException(n)

\* C12 (amended): every header received under a hop-by-hop name of its own
\* collection (inbound headers, response headers, response trailers) is
\* dropped: nothing received under that name is passed on.  The name is on
\* the message passed on only with what was written after the stripping:
\* the proxy's own Forwarded and Via elements, Upgrade and Connection on
\* the upgrade path, or a trailer the trailers' own Connection header does
\* not list.
C12_ReceivedHopHeadersDropped ==
    /\ RequestSent =>
           \A n \in ReceivedHopNames(req.header) :
               \/ Elems(outreq.header[n]) \cap Elems(req.header[n]) = {}
               \/ UpgradeException(n)
    /\ ResponseGiven =>
           /\ \A n \in ReceivedHopNames(res.header) :
                  \/ Elems(wHeader[n]) \cap Elems(res.header[n]) = {}
                  \/ UpgradeException(n)
           /\ \A n \in ReceivedHopNames(res.trailer) :
                  Elems(wHeader[n]) \cap Elems(res.trailer[n]) = {}

C12_Witness ==
    /\ path = "Forward" /\ RequestSent /\ ResponseGiven
    /\ ReceivedHopNames(req.header) = {"Connection", "Keep-Alive", "X-Custom", "Via"}
    /\ Len(outreq.header["Keep-Alive"]) = 0 /\ Len(outreq.header["X-Custom"]) = 0
    /\ Len(outreq.header["Via"]) = 1
    /\ ReceivedHopNames(res.header) = {"Connection", "X-Custom"}
    /\ ReceivedHopNames(res.trailer) = {"Keep-Alive"}
    /\ wHeader["X-Custom"] = << <<"t">> >>
    /\ Len(wHeader["Keep-Alive"]) = 0

====
